---- MODULE Spec2Model ----
(***************************************************************************)
(* Walker's node-positioning algorithm as implemented by WalkerTree        *)
(* (src/walker_tree.py).  One WalkerTree object is modelled: its           *)
(* configuration, its node store, the list of previous nodes per level and *)
(* the two top adjustments.  Each public call (the constructor,            *)
(* populate_tree, position_tree) is one action that computes the whole     *)
(* call, recursion included.                                               *)
(*                                                                         *)
(* Numbers.  The program computes with Python numbers; midpoints and       *)
(* portions are produced by true division.  They are modelled as exact     *)
(* rationals <<n, d>> in lowest terms with d > 0; the two infinities of    *)
(* the optional bounds are <<-1, 0>> and <<1, 0>>.                         *)
(***************************************************************************)
EXTENDS Integers, Sequences, FiniteSets, TLC

(***************************************************************************)
(* Bounds of the model.                                                    *)
(***************************************************************************)
\* Largest number of nodes of an enumerated ordered tree.
MaxNodes == 6
\* Largest number of descriptors of an arbitrary (unchecked) node set.
MaxRawNodes == 2
\* position_tree is called at most this many times on one object.
MaxRuns == 2
\* Number of ids a Bonsai's first mapping is written with.
MaxBonsaiIds == 3
\* add_leaf and prune are called at most this many times on one Bonsai.
MaxEdits == 2
\* The deepest level the previous-node list is asked about when its
\* operations are called on their own.
MaxLevel == 2
\* The greatest depth _get_leftmost is asked for when called on its own.
MaxAskedDepth == 4

None == "None"

(***************************************************************************)
(* Exact rational arithmetic.                                              *)
(***************************************************************************)
Abs(i) == IF i < 0 THEN -i ELSE i

RECURSIVE GCD(_, _)
GCD(a, b) == IF b = 0 THEN a ELSE GCD(b, a % b)

Rat(n, d) ==
    LET g == GCD(Abs(n), Abs(d))
        s == IF d < 0 THEN -1 ELSE 1
    IN  <<(s * n) \div g, (s * d) \div g>>

R(i) == <<i, 1>>
Zero == R(0)
RAdd(a, b) == Rat(a[1] * b[2] + b[1] * a[2], a[2] * b[2])
RSub(a, b) == Rat(a[1] * b[2] - b[1] * a[2], a[2] * b[2])
RMulInt(a, k) == Rat(a[1] * k, a[2])
RDivInt(a, k) == Rat(a[1], a[2] * k)
RLt(a, b) == a[1] * b[2] < b[1] * a[2]
RLe(a, b) == a[1] * b[2] <= b[1] * a[2]

\* Numbers extended by -inf and +inf (the defaults of min_x .. max_y).
NegInf == <<-1, 0>>
PosInf == <<1, 0>>
ERank(a) == IF a[2] # 0 THEN 0 ELSE a[1]
ELt(a, b) ==
    IF a[2] # 0 /\ b[2] # 0 THEN RLt(a, b) ELSE ERank(a) < ERank(b)
EGe(a, b) == ~ELt(a, b)

(***************************************************************************)
(* State.                                                                  *)
(***************************************************************************)
VARIABLES
    obj,            \* TRUE once the constructor has returned normally
    cfg,            \* the nine settings given to the constructor
    tree,           \* self._tree: node id -> internal node
    root_node_id,   \* self._root_node_id
    level_zero_ptr, \* the list of previous nodes, one entry per level
    x_top_adj,      \* self._x_top_adj
    y_top_adj,      \* self._y_top_adj
    last,           \* the last call made: "none", "construct", "populate", "position"
    exc,            \* the exception that call raised, "none" if it returned
    exc_before,     \* the exception the call before it raised
    before,         \* the node store as it was when the last position_tree began
    writes,         \* node id -> number of points the last run's second walk stored
    runs,           \* number of position_tree calls made so far
    bonsai,         \* TRUE once Bonsai(tree, config) has returned normally
    parent_id_to_children, \* self._parent_id_to_children of the Bonsai
    args,           \* the arguments of the last Bonsai call
    children_before, \* _parent_id_to_children as it was when that call began
    edits,          \* number of add_leaf and prune calls made so far
    first_walk,     \* how _first_walk ended in the last layout: "none" if not called
    apportions,     \* the record of that walk's _apportion iterations
    prev_before,    \* the previous-node list before the last call
    returned        \* what the last call of _get_leftmost returned

\* The WalkerTree fields are those of the Bonsai's _w_tree once a Bonsai is
\* being built: it makes a new WalkerTree every time it lays the tree out.
bonsai_vars == <<bonsai, parent_id_to_children, args, children_before, edits>>
walk_vars == <<first_walk, apportions, prev_before, returned>>
vars == <<obj, cfg, tree, root_node_id, level_zero_ptr, x_top_adj, y_top_adj,
          last, exc, exc_before, before, writes, runs, bonsai_vars, walk_vars>>

(***************************************************************************)
(* Configuration.                                                          *)
(***************************************************************************)
SeparationValues == {-1, 0, 4}
LevelSeparationValues == {-1, 0, 1}
NodeSizeValues == {-1, 0, 2}
MaxDepthValues == {-1, 0, 2, 100}
XBounds == {<<NegInf, PosInf>>, <<NegInf, R(10)>>, <<R(-3), R(10)>>, <<R(10), R(10)>>}
YBounds == {<<NegInf, PosInf>>, <<R(0), R(2)>>, <<R(1), R(-1)>>}

Configurations ==
    { [sibling_separation |-> ss, subtree_separation |-> sts,
       level_separation |-> ls, max_depth |-> md, node_size |-> ns,
       min_x |-> xb[1], max_x |-> xb[2], min_y |-> yb[1], max_y |-> yb[2]] :
        ss \in SeparationValues, sts \in SeparationValues,
        ls \in LevelSeparationValues, md \in MaxDepthValues,
        ns \in NodeSizeValues, xb \in XBounds, yb \in YBounds }

NoConfig ==
    [sibling_separation |-> 0, subtree_separation |-> 0, level_separation |-> 0,
     max_depth |-> 0, node_size |-> 0,
     min_x |-> NegInf, max_x |-> PosInf, min_y |-> NegInf, max_y |-> PosInf]

\* Mutant: a spacing of zero is refused as well.
InvalidValuesZeroRefused(c) ==
    (IF c.sibling_separation <= 0 THEN {"sibling_separation"} ELSE {})
    \cup (IF c.subtree_separation <= 0 THEN {"subtree_separation"} ELSE {})
    \cup (IF c.level_separation <= 0 THEN {"level_separation"} ELSE {})
    \cup (IF c.max_depth <= 0 THEN {"max_depth"} ELSE {})
    \cup (IF c.node_size <= 0 THEN {"node_size"} ELSE {})
    \cup (IF EGe(c.min_x, c.max_x) THEN {"min_x, max_x"} ELSE {})
    \cup (IF EGe(c.min_y, c.max_y) THEN {"min_y, max_y"} ELSE {})

\* The keys of invalid_values that _validate_configuration collects.
InvalidValues(c) ==
    (IF c.sibling_separation < 0 THEN {"sibling_separation"} ELSE {})
    \cup (IF c.subtree_separation < 0 THEN {"subtree_separation"} ELSE {})
    \cup (IF c.level_separation < 0 THEN {"level_separation"} ELSE {})
    \cup (IF c.max_depth < 0 THEN {"max_depth"} ELSE {})
    \cup (IF c.node_size < 0 THEN {"node_size"} ELSE {})
    \cup (IF EGe(c.min_x, c.max_x) THEN {"min_x, max_x"} ELSE {})
    \cup (IF EGe(c.min_y, c.max_y) THEN {"min_y, max_y"} ELSE {})

ValidateConfiguration(c) ==
    IF InvalidValues(c) # {} THEN "InvalidTreeConfiguration" ELSE "none"

(***************************************************************************)
(* Client input: sets of WalkerTree.Node descriptors.                      *)
(***************************************************************************)
Node(is_leaf, left_sibling, right_sibling, parent, first_child) ==
    [is_leaf |-> is_leaf, left_sibling |-> left_sibling,
     right_sibling |-> right_sibling, parent |-> parent,
     first_child |-> first_child]

\* The 15-node tree of walker_tree_sample.py.
SampleNodes ==
    [n \in {"A", "B", "C", "D", "E", "F", "G", "H", "I", "J", "K", "L", "M", "N", "O"} |->
        CASE n = "A" -> Node(TRUE, None, "D", "E", None)
          [] n = "B" -> Node(TRUE, None, "C", "D", None)
          [] n = "C" -> Node(TRUE, "B", None, "D", None)
          [] n = "D" -> Node(FALSE, "A", None, "E", "B")
          [] n = "E" -> Node(FALSE, None, "F", "O", "A")
          [] n = "F" -> Node(TRUE, "E", "N", "O", None)
          [] n = "G" -> Node(TRUE, None, "M", "N", None)
          [] n = "H" -> Node(TRUE, None, "I", "M", None)
          [] n = "I" -> Node(TRUE, "H", "J", "M", None)
          [] n = "J" -> Node(TRUE, "I", "K", "M", None)
          [] n = "K" -> Node(TRUE, "J", "L", "M", None)
          [] n = "L" -> Node(TRUE, "K", None, "M", None)
          [] n = "M" -> Node(FALSE, "G", None, "N", "H")
          [] n = "N" -> Node(FALSE, "F", None, "O", "G")
          [] n = "O" -> Node(FALSE, None, None, None, "E")]

\* Ids given to the nodes of an enumerated tree, in preorder.
NodeNames == <<"A", "B", "C", "D", "E", "F", "G", "H", "I", "J", "K", "L", "M", "N", "O", "P">>

\* An ordered rooted tree with n nodes numbered in preorder is its sequence of
\* parent numbers (0 for the root): node i+1 hangs below a node of the
\* rightmost path of the tree of nodes 1..i.
RECURSIVE RightPath(_, _)
RightPath(p, i) == IF i = 0 THEN {} ELSE {i} \cup RightPath(p, p[i])

RECURSIVE ParentVectors(_)
ParentVectors(n) ==
    IF n = 1 THEN {<<0>>}
    ELSE UNION {{Append(p, q) : q \in RightPath(p, n - 1)} : p \in ParentVectors(n - 1)}

NameOf(i) == IF i = 0 THEN None ELSE NodeNames[i]

SetMax(S) == CHOOSE x \in S : \A y \in S : y <= x
SetMin(S) == CHOOSE x \in S : \A y \in S : x <= y

\* The descriptors a client writes for the tree of parent vector p.
Family(p) ==
    LET n == Len(p)
        lefts(i) == {j \in 1..(i - 1) : p[j] = p[i]}
        rights(i) == {j \in (i + 1)..n : p[j] = p[i]}
        kids(i) == {j \in 1..n : p[j] = i}
        desc(i) ==
            Node(kids(i) = {},
                 IF i = 1 \/ lefts(i) = {} THEN None ELSE NameOf(SetMax(lefts(i))),
                 IF i = 1 \/ rights(i) = {} THEN None ELSE NameOf(SetMin(rights(i))),
                 NameOf(p[i]),
                 IF kids(i) = {} THEN None ELSE NameOf(SetMin(kids(i))))
    IN  [nm \in {NodeNames[i] : i \in 1..n} |->
            desc(CHOOSE i \in 1..n : NodeNames[i] = nm)]

TreeInputs == {Family(p) : p \in UNION {ParentVectors(n) : n \in 1..MaxNodes}}

\* A tree of 14 nodes whose root has three inner children: the first and
\* the last have one child with three leaves, the one between them has two
\* leaves.
InteriorNodes == Family(<<0, 1, 2, 3, 3, 3, 1, 7, 7, 1, 10, 11, 11, 11>>)

\* Arbitrary descriptor sets, well formed or not: any leaf flag, and any
\* reference among the ids of the set, None and an id the set does not hold.
RawIds == {NodeNames[i] : i \in 1..MaxRawNodes}
Dangling == "Z"
\* The empty string: an id that is not None and that Python takes for false.
Empty == ""
RawRefs(ids) == ids \cup {None, Dangling, Empty}
RawInputs(ids) ==
    [ids -> [is_leaf : BOOLEAN, left_sibling : RawRefs(ids),
             right_sibling : RawRefs(ids), parent : RawRefs(ids),
             first_child : RawRefs(ids)]]

(***************************************************************************)
(* The node store.                                                         *)
(***************************************************************************)
Point(x, y) == [x |-> x, y |-> y]

\* _InternalNode.__init__
InternalNode(node) ==
    [is_leaf |-> node.is_leaf, left_sibling |-> node.left_sibling,
     right_sibling |-> node.right_sibling, parent |-> node.parent,
     first_child |-> node.first_child,
     prelim |-> Zero, modifier |-> Zero, left_neighbor |-> None,
     point |-> Point(Zero, Zero)]

has_child(node) == ~node.is_leaf
has_left_sibling(node) == node.left_sibling # None
has_right_sibling(node) == node.right_sibling # None

EmptyTree == [n \in {} |-> InternalNode(Node(TRUE, None, None, None, None))]

\* `if id`: an id is taken for true unless it is None or the empty string.
Truthy(id) == id # None /\ id # Empty

\* _get_node: no node for an id that is not taken for true.  Every other id
\* the walks look up is a key of the store, as _validate_tree has seen to.
GetNode(id) == IF Truthy(id) THEN id ELSE None

\* What the loop body of _validate_tree raises for one node, "none" when
\* the node passes: the checks in the order the code makes them.  The
\* sibling checks look up every sibling id that is not None, and the look-up
\* of an id that is no key of the store raises KeyError.
NodeCheck(t, n) ==
    LET node == t[n] IN
    IF node.is_leaf /\ (Truthy(node.first_child) \/ has_child(node))
    THEN "InvalidTree"
    ELSE IF has_child(node) /\ ~Truthy(node.first_child) THEN "InvalidTree"
    ELSE IF Truthy(node.parent) /\ node.parent \notin DOMAIN t THEN "InvalidTree"
    ELSE IF Truthy(node.left_sibling) /\ node.left_sibling \notin DOMAIN t
    THEN "InvalidTree"
    ELSE IF Truthy(node.right_sibling) /\ node.right_sibling \notin DOMAIN t
    THEN "InvalidTree"
    ELSE IF Truthy(node.first_child) /\ node.first_child \notin DOMAIN t
    THEN "InvalidTree"
    ELSE IF has_left_sibling(node) /\ node.left_sibling \notin DOMAIN t
    THEN "KeyError"
    ELSE IF has_left_sibling(node) /\ t[node.left_sibling].right_sibling # n
    THEN "InvalidTree"
    ELSE IF has_right_sibling(node) /\ node.right_sibling \notin DOMAIN t
    THEN "KeyError"
    ELSE IF has_right_sibling(node) /\ t[node.right_sibling].left_sibling # n
    THEN "InvalidTree"
    ELSE IF has_child(node) /\ t[node.first_child].parent # n THEN "InvalidTree"
    ELSE "none"

no_parent_node_ids(t) == {n \in DOMAIN t : t[n].parent = None}

\* _validate_tree: the exceptions it can raise, "none" when it accepts the
\* store.  The store is filled from a set, so the loop meets the nodes in an
\* order the caller does not choose, and it stops at the first that fails.
ValidateTree(t) ==
    LET raised == {NodeCheck(t, n) : n \in DOMAIN t} \ {"none"} IN
    IF raised # {} THEN raised
    ELSE IF Cardinality(no_parent_node_ids(t)) # 1 THEN {"InvalidTree"}
    ELSE {"none"}

\* Mutant: the root is recorded before the number of rootless nodes is tested.
RootRecordedAnyway(t, raised, root) ==
    IF no_parent_node_ids(t) # {}
    THEN CHOOSE n \in no_parent_node_ids(t) : TRUE
    ELSE root

\* _root_node_id after _validate_tree: the one node without a parent is
\* recorded on the branch that raises nothing, nothing is recorded otherwise.
RootRecorded(t, raised, root) ==
    IF raised = "none" THEN CHOOSE n \in no_parent_node_ids(t) : TRUE ELSE root

\* populate_tree's store: every given node replaces or extends the store.
Populated(t, nodes) ==
    [n \in DOMAIN t \cup DOMAIN nodes |->
        IF n \in DOMAIN nodes THEN InternalNode(nodes[n]) ELSE t[n]]

(***************************************************************************)
(* The list of previous nodes.  The linked list of _NodeTracker objects    *)
(* that starts at _level_zero_ptr is the sequence of its prev_node fields; *)
(* a None pointer is the empty sequence.                                   *)
(***************************************************************************)
\* Mutant: the list keeps the nodes of the previous run.
InitPrevNodeListKeep(ptr) == ptr

\* _init_prev_node_list
InitPrevNodeList(ptr) == [i \in 1..Len(ptr) |-> None]

\* _get_prev_node
GetPrevNodeNever(ptr, level) == None
GetPrevNode(ptr, level) ==
    IF level + 1 \in 1..Len(ptr) THEN ptr[level + 1] ELSE None

\* _set_prev_node: an empty list gets its first entry, whatever the level;
\* otherwise the list is extended by empty entries until it has one for level.
RECURSIVE SetPrevNode(_, _, _)
SetPrevNode(ptr, level, node) ==
    IF Len(ptr) = 0 THEN <<node>>
    ELSE IF level + 1 <= Len(ptr) THEN [ptr EXCEPT ![level + 1] = node]
    ELSE SetPrevNode(Append(ptr, None), level, node)

(***************************************************************************)
(* _get_leftmost                                                           *)
(***************************************************************************)
RECURSIVE GetLeftmost(_, _, _, _)
RECURSIVE GetLeftmostLoop(_, _, _, _)

\* The while loop of _get_leftmost, entered with right_most just assigned.
GetLeftmostLoop(t, right_most, level, depth) ==
    LET left_most == GetLeftmost(t, right_most, level + 1, depth) IN
    IF left_most = None /\ has_right_sibling(t[right_most])
    THEN GetLeftmostLoop(t, t[right_most].right_sibling, level, depth)
    ELSE left_most

RECURSIVE GetLeftmostFirstChildOnly(_, _, _, _)
GetLeftmostFirstChildOnly(t, node, level, depth) ==
    IF level >= depth THEN node
    ELSE IF t[node].is_leaf THEN None
    ELSE GetLeftmostFirstChildOnly(t, t[node].first_child, level + 1, depth)

GetLeftmost(t, node, level, depth) ==
    IF level >= depth THEN node
    ELSE IF t[node].is_leaf THEN None
    ELSE GetLeftmostLoop(t, t[node].first_child, level, depth)

(***************************************************************************)
(* _apportion                                                              *)
(***************************************************************************)
\* The for loop that climbs compare_depth parents from left_most and from
\* neighbor and sums the modifiers met.  A missing parent makes the program
\* read an attribute of None.
RECURSIVE AncestorSums(_, _, _, _, _, _)
AncestorSums(t, ancestor_left_most, ancestor_neighbor, i, right_mod_sum, left_mod_sum) ==
    IF i = 0
    THEN [err |-> "none", ancestor_left_most |-> ancestor_left_most,
          ancestor_neighbor |-> ancestor_neighbor,
          right_mod_sum |-> right_mod_sum, left_mod_sum |-> left_mod_sum]
    ELSE LET al == GetNode(t[ancestor_left_most].parent)
             an == GetNode(t[ancestor_neighbor].parent)
         IN  IF al = None \/ an = None
             THEN [err |-> "AttributeError", ancestor_left_most |-> al,
                   ancestor_neighbor |-> an,
                   right_mod_sum |-> right_mod_sum, left_mod_sum |-> left_mod_sum]
             ELSE AncestorSums(t, al, an, i - 1,
                               RAdd(right_mod_sum, t[al].modifier),
                               RAdd(left_mod_sum, t[an].modifier))

\* Mutant: the width of a node is left out of the distance kept to the neighbour.
MoveDistanceNoNodeSize(t, left_most, neighbor, left_mod_sum, right_mod_sum) ==
    RSub(RAdd(RAdd(t[neighbor].prelim, left_mod_sum), R(cfg.subtree_separation)),
         RAdd(t[left_most].prelim, right_mod_sum))

MoveDistance(t, left_most, neighbor, left_mod_sum, right_mod_sum) ==
    RSub(RAdd(RAdd(RAdd(t[neighbor].prelim, left_mod_sum),
                   R(cfg.subtree_separation)), R(cfg.node_size)),
         RAdd(t[left_most].prelim, right_mod_sum))

\* The loop that counts the siblings from node leftwards up to
\* ancestor_neighbor.  A chain of left siblings that comes back to a node it
\* has passed never ends: "Diverges".
RECURSIVE CountLeftSiblings(_, _, _, _, _)
CountLeftSiblings(t, tmp, ancestor_neighbor, left_siblings, seen) ==
    IF tmp = None \/ tmp = ancestor_neighbor
    THEN [err |-> "none", tmp |-> tmp, left_siblings |-> left_siblings]
    ELSE IF tmp \in seen
    THEN [err |-> "Diverges", tmp |-> tmp, left_siblings |-> left_siblings]
    ELSE CountLeftSiblings(t, t[tmp].left_sibling, ancestor_neighbor,
                           left_siblings + 1, seen \cup {tmp})

\* Mutant: the move is divided among one subtree too many.
PortionOneMore(move_distance, left_siblings) ==
    RDivInt(move_distance, left_siblings + 1)

Portion(move_distance, left_siblings) == RDivInt(move_distance, left_siblings)

\* The loop that adds the shrinking move distance to node and to its left
\* siblings short of ancestor_neighbor.
RECURSIVE ApplyPortionsWhole(_, _, _, _, _)
ApplyPortionsWhole(t, tmp, ancestor_neighbor, move_distance, portion) ==
    IF tmp = ancestor_neighbor THEN t
    ELSE ApplyPortionsWhole([t EXCEPT ![tmp].prelim = RAdd(@, move_distance),
                                      ![tmp].modifier = RAdd(@, move_distance)],
                            t[tmp].left_sibling, ancestor_neighbor,
                            move_distance, portion)

RECURSIVE ApplyPortionsPrelimOnly(_, _, _, _, _)
ApplyPortionsPrelimOnly(t, tmp, ancestor_neighbor, move_distance, portion) ==
    IF tmp = ancestor_neighbor THEN t
    ELSE ApplyPortionsPrelimOnly([t EXCEPT ![tmp].prelim = RAdd(@, move_distance)],
                                 t[tmp].left_sibling, ancestor_neighbor,
                                 RSub(move_distance, portion), portion)

RECURSIVE ApplyPortions(_, _, _, _, _)
ApplyPortions(t, tmp, ancestor_neighbor, move_distance, portion) ==
    IF tmp = ancestor_neighbor THEN t
    ELSE ApplyPortions([t EXCEPT ![tmp].prelim = RAdd(@, move_distance),
                                 ![tmp].modifier = RAdd(@, move_distance)],
                       t[tmp].left_sibling, ancestor_neighbor,
                       RSub(move_distance, portion), portion)

\* The while loop of _apportion, entered with left_most, neighbor and
\* compare_depth as they stand.  s is the state of the running position_tree:
\* the store, the list of previous nodes and the exception raised, if any.
\* Each step of the loop body is an operator applied to what the step
\* before it computed: AfterSums to the result a of the for loop, AfterCount
\* to move_distance and to the result c of the count loop, Advance to the
\* store t1 the apply loop leaves, Continue to the next left_most.
\* The prelim and the modifier of every node of the store.
Shifts(t) == [n \in DOMAIN t |-> <<t[n].prelim, t[n].modifier>>]

\* What one iteration with move_distance > 0 did, as the run's record of it:
\* reached tells whether the count loop met ancestor_neighbor.
Apportioned(t, t1, node, level, a, move_distance, c) ==
    [node |-> node, level |-> level, ancestor_neighbor |-> a.ancestor_neighbor,
     move_distance |-> move_distance, reached |-> c.tmp # None,
     left_siblings |-> c.left_siblings, from |-> Shifts(t), to |-> Shifts(t1)]

RECURSIVE ApportionLoop(_, _, _, _, _, _)
ApportionLoop(s, node, level, left_most, neighbor, compare_depth) ==
    IF ~(left_most # None /\ neighbor # None
         /\ compare_depth <= cfg.max_depth - level)
    THEN s
    ELSE
    LET t == s.tree
        Continue(t1, lg, next_left_most) ==
            ApportionLoop([s EXCEPT !.tree = t1, !.log = lg], node, level,
                          next_left_most,
                          IF next_left_most = None THEN None
                          ELSE t1[next_left_most].left_neighbor,
                          compare_depth + 1)
        Advance(t1, lg) ==
            Continue(t1, lg,
                     IF t1[left_most].is_leaf
                     THEN GetLeftmost(t1, node, 0, compare_depth + 1)
                     ELSE t1[left_most].first_child)
        Applied(a, move_distance, c, t1) ==
            Advance(t1, Append(s.log, Apportioned(t, t1, node, level, a,
                                                  move_distance, c)))
        AfterCount(a, move_distance, c) ==
            IF ~RLt(Zero, move_distance) THEN Advance(t, s.log)
            ELSE IF c.err # "none" THEN [s EXCEPT !.err = c.err]
            ELSE IF c.tmp = None
            THEN [s EXCEPT !.log = Append(@, Apportioned(t, t, node, level, a,
                                                         move_distance, c))]
            ELSE IF c.left_siblings = 0 THEN [s EXCEPT !.err = "ZeroDivisionError"]
            ELSE Applied(a, move_distance, c,
                         ApplyPortions(t, node, a.ancestor_neighbor, move_distance,
                                       Portion(move_distance, c.left_siblings)))
        AfterSums(a) ==
            IF a.err # "none" THEN [s EXCEPT !.err = a.err]
            ELSE AfterCount(a,
                            MoveDistance(t, left_most, neighbor,
                                         a.left_mod_sum, a.right_mod_sum),
                            CountLeftSiblings(t, node, a.ancestor_neighbor, 0, {}))
    IN  AfterSums(AncestorSums(t, left_most, neighbor, compare_depth, Zero, Zero))

Apportion(s, node, level) ==
    LET left_most == s.tree[node].first_child
        neighbor == s.tree[left_most].left_neighbor
    IN  ApportionLoop(s, node, level, left_most, neighbor, 1)

(***************************************************************************)
(* _first_walk                                                             *)
(***************************************************************************)
\* Mutant: the width of a node is left out of the distance between siblings.
SiblingPrelimNoNodeSize(t, node) ==
    RAdd(t[t[node].left_sibling].prelim, R(cfg.sibling_separation))

\* The preliminary x of a node placed by its left sibling alone.
SiblingPrelim(t, node) ==
    RAdd(RAdd(t[t[node].left_sibling].prelim, R(cfg.sibling_separation)),
         R(cfg.node_size))

\* Mutant: the parent is put over its first child.
MidpointLeftMost(t, left_most, right_most) == t[left_most].prelim

Midpoint(t, left_most, right_most) ==
    RDivInt(RAdd(t[left_most].prelim, t[right_most].prelim), 2)

RECURSIVE FirstWalk(_, _, _)
RECURSIVE FirstWalkSiblings(_, _, _, _)

\* The walk of node's offspring: _first_walk of right_most, then of every
\* right sibling in turn.  The loop follows right_sibling links only, so a
\* chain of them that comes back to a node already walked never ends:
\* "Diverges".  On return s.right_most is the last child walked.
FirstWalkSiblings(s, right_most, level, seen) ==
    IF right_most \in seen THEN [s EXCEPT !.err = "Diverges"]
    ELSE
    LET s1 == FirstWalk(s, right_most, level) IN
    IF s1.err # "none" THEN s1
    ELSE IF has_right_sibling(s1.tree[right_most])
    THEN FirstWalkSiblings(s1, s1.tree[right_most].right_sibling, level,
                           seen \cup {right_most})
    ELSE [s1 EXCEPT !.right_most = right_most]

\* Place is what follows the walk of the offspring, applied to the state s2
\* that walk leaves; Centre and Shift set the prelim of an internal node
\* from the midpoint of its children and from its left sibling.
FirstWalk(s, node, level) ==
    LET s1 == [s EXCEPT !.tree[node].left_neighbor = GetPrevNode(s.prev, level),
                        !.tree[node].modifier = Zero,
                        !.prev = SetPrevNode(s.prev, level, node)]
        nd == s.tree[node]
        left_most == nd.first_child
        Shift(s2, midpoint, prelim) ==
            Apportion([s2 EXCEPT !.tree[node].prelim = prelim,
                                 !.tree[node].modifier = RSub(prelim, midpoint)],
                      node, level)
        Centre(s2, midpoint) ==
            IF has_left_sibling(nd)
            THEN Shift(s2, midpoint, SiblingPrelim(s2.tree, node))
            ELSE [s2 EXCEPT !.tree[node].prelim = midpoint]
        Place(s2) ==
            IF s2.err # "none" THEN s2
            ELSE Centre(s2, Midpoint(s2.tree, left_most, s2.right_most))
    IN
    IF nd.is_leaf \/ level = cfg.max_depth
    THEN IF has_left_sibling(nd)
         THEN [s1 EXCEPT !.tree[node].prelim = SiblingPrelim(s1.tree, node)]
         ELSE [s1 EXCEPT !.tree[node].prelim = Zero]
    ELSE Place(FirstWalkSiblings(s1, left_most, level + 1, {}))

(***************************************************************************)
(* _second_walk                                                            *)
(***************************************************************************)
\* Mutant: the upper bound of x is not checked.
OutOfRangeNoMaxX(x, y) ==
    \/ ELt(x, cfg.min_x)
    \/ ELt(y, cfg.min_y) \/ ELt(cfg.max_y, y)

\* _check_extents_range: TRUE when it raises.
OutOfRange(x, y) ==
    \/ ELt(x, cfg.min_x) \/ ELt(cfg.max_x, x)
    \/ ELt(y, cfg.min_y) \/ ELt(cfg.max_y, y)

\* Mutant: the top adjustment is left out of x.
XTmpNoTopAdj(xta, prelim, mod_sum) == RAdd(prelim, mod_sum)

\* Mutant: every node below the top is put one level down, whatever its level.
YTmpOneLevel(yta, level) ==
    RAdd(yta, R((IF level = 0 THEN 0 ELSE 1) * cfg.level_separation))

XTmp(xta, prelim, mod_sum) == RAdd(RAdd(xta, prelim), mod_sum)
YTmp(yta, level) == RAdd(yta, R(level * cfg.level_separation))

\* Mutant: a node at max_depth is refused as too deep.
MaxDepthExceededAtMaxDepth(level) == level >= cfg.max_depth

\* The depth test that opens _second_walk: TRUE when it raises.
MaxDepthExceededNever(level) == FALSE
MaxDepthExceeded(level) == level > cfg.max_depth

\* chain holds the nodes whose call has reached this one through
\* right_sibling links alone; a link back into chain recurses without end,
\* which the interpreter ends with RecursionError.
RECURSIVE SecondWalk(_, _, _, _, _)
SecondWalk(s, node, level, mod_sum, chain) ==
    IF MaxDepthExceeded(level) THEN [s EXCEPT !.err = "MaxDepthExceeded"]
    ELSE
    LET nd == s.tree[node]
        x_tmp == XTmp(s.x_top_adj, nd.prelim, mod_sum)
        y_tmp == YTmp(s.y_top_adj, level)
    IN
    IF OutOfRange(x_tmp, y_tmp) THEN [s EXCEPT !.err = "TreeOutOfCoordinateRange"]
    ELSE
    LET s1 == [s EXCEPT !.tree[node].point = Point(x_tmp, y_tmp),
                        !.writes[node] = @ + 1]
        s2 == IF has_child(nd)
              THEN SecondWalk(s1, nd.first_child, level + 1,
                              RAdd(mod_sum, nd.modifier), {})
              ELSE s1
    IN
    IF s2.err # "none" THEN s2
    ELSE IF has_right_sibling(nd)
    THEN IF nd.right_sibling \in chain \cup {node}
         THEN [s2 EXCEPT !.err = "RecursionError"]
         ELSE SecondWalk(s2, nd.right_sibling, level, mod_sum, chain \cup {node})
    ELSE s2

(***************************************************************************)
(* position_tree                                                           *)
(***************************************************************************)
\* The state a call of position_tree ends in; err is the exception raised,
\* first_walk tells how _first_walk ended if it was called, log is the
\* record of the iterations of _apportion that found a move_distance > 0.
\* Finish is what follows the first walk, applied to the state s1 it leaves.
PositionTree(t, root_id, ptr, xta, yta) ==
    LET s0 == [tree |-> t, prev |-> ptr, err |-> "none", right_most |-> None,
               writes |-> [n \in DOMAIN t |-> 0],
               x_top_adj |-> xta, y_top_adj |-> yta,
               first_walk |-> "none", log |-> <<>>]
        Finish(s1) ==
            IF s1.err # "none" THEN [s1 EXCEPT !.first_walk = "raised"]
            ELSE SecondWalk([s1 EXCEPT
                                !.first_walk = "returned",
                                !.x_top_adj = RSub(s1.tree[root_id].point.x,
                                                   s1.tree[root_id].prelim),
                                !.y_top_adj = s1.tree[root_id].point.y],
                            root_id, 0, Zero, {})
    IN
    IF DOMAIN t = {} THEN [s0 EXCEPT !.err = "InvalidTree"]
    ELSE IF root_id = None THEN [s0 EXCEPT !.err = "InvalidTree"]
    ELSE Finish(FirstWalk([s0 EXCEPT !.prev = InitPrevNodeList(ptr)], root_id, 0))

(***************************************************************************)
(* The calls a client makes.                                               *)
(***************************************************************************)
Init ==
    /\ obj = FALSE
    /\ cfg = NoConfig
    /\ tree = EmptyTree
    /\ root_node_id = None
    /\ level_zero_ptr = <<>>
    /\ x_top_adj = Zero
    /\ y_top_adj = Zero
    /\ last = "none"
    /\ exc = "none"
    /\ exc_before = "none"
    /\ before = EmptyTree
    /\ writes = EmptyTree
    /\ runs = 0
    /\ bonsai = FALSE
    /\ parent_id_to_children = EmptyTree
    /\ args = <<>>
    /\ children_before = EmptyTree
    /\ edits = 0
    /\ first_walk = "none"
    /\ apportions = <<>>
    /\ prev_before = <<>>
    /\ returned = None

\* WalkerTree(...): the settings are stored, then validated.
Construct(c) ==
    /\ last = "none"
    /\ cfg' = c
    /\ exc' = ValidateConfiguration(c)
    /\ obj' = (ValidateConfiguration(c) = "none")
    /\ last' = "construct"
    /\ exc_before' = exc
    /\ UNCHANGED <<tree, root_node_id, level_zero_ptr, x_top_adj, y_top_adj,
                   before, writes, runs, bonsai_vars, walk_vars>>

\* populate_tree(nodes), called once on a new object.
PopulateTree(nodes) ==
    /\ obj
    /\ last = "construct"
    /\ \E t \in {Populated(tree, nodes)} :
           /\ tree' = t
           /\ exc' \in ValidateTree(t)
           /\ root_node_id' = RootRecorded(t, exc', root_node_id)
    /\ last' = "populate"
    /\ exc_before' = exc
    /\ UNCHANGED <<obj, cfg, level_zero_ptr, x_top_adj, y_top_adj,
                   before, writes, runs, bonsai_vars, walk_vars>>

\* position_tree()
Position ==
    /\ obj
    /\ last \in {"construct", "populate", "position"}
    /\ runs < MaxRuns
    /\ \E r \in {PositionTree(tree, root_node_id, level_zero_ptr, x_top_adj, y_top_adj)} :
           /\ tree' = r.tree
           /\ level_zero_ptr' = r.prev
           /\ x_top_adj' = r.x_top_adj
           /\ y_top_adj' = r.y_top_adj
           /\ exc' = r.err
           /\ writes' = r.writes
           /\ first_walk' = r.first_walk
           /\ apportions' = r.log
    /\ before' = tree
    /\ prev_before' = level_zero_ptr
    /\ returned' = None
    /\ runs' = runs + 1
    /\ last' = "position"
    /\ exc_before' = exc
    /\ UNCHANGED <<obj, cfg, root_node_id, bonsai_vars>>

\* The guards of the calls are repeated ahead of the quantifiers so that the
\* inputs are enumerated only in the states where the call can be made.
ConstructAny ==
    /\ last = "none"
    /\ \E c \in Configurations : Construct(c)
PopulateWithTree ==
    /\ obj /\ last = "construct"
    /\ \E nodes \in TreeInputs \cup {SampleNodes, InteriorNodes} : PopulateTree(nodes)
PopulateWithAny ==
    /\ obj /\ last = "construct"
    /\ \E ids \in (SUBSET RawIds) \ {{}} :
           \E nodes \in RawInputs(ids) : PopulateTree(nodes)

Next == ConstructAny \/ PopulateWithTree \/ Position
Spec == Init /\ [][Next]_vars

\* The same object fed descriptor sets that need not describe a tree, under
\* the spacing of walker_tree_sample.py, with no level allowed below the
\* root and with a hundred.
RawConfigurations ==
    {c \in Configurations :
        /\ c.sibling_separation = 4 /\ c.subtree_separation = 4
        /\ c.level_separation = 1 /\ c.node_size = 2
        /\ c.max_depth \in {0, 100}
        /\ c.min_x = NegInf /\ c.max_x = PosInf
        /\ c.min_y = NegInf /\ c.max_y = PosInf}
ConstructRaw ==
    /\ last = "none"
    /\ \E c \in RawConfigurations : Construct(c)
NextRaw == ConstructRaw \/ PopulateWithAny \/ Position
SpecRaw == Init /\ [][NextRaw]_vars

(***************************************************************************)
(* The operations of the previous-node list, called on their own on a new  *)
(* WalkerTree.                                                             *)
(***************************************************************************)
Levels == 0..MaxLevel
PrevNodes == {"A", "B"}

\* _set_prev_node(level, node)
SetPrevNodeCall(level, node) ==
    /\ obj
    /\ last \in {"construct", "_set_prev_node", "_init_prev_node_list"}
    /\ level_zero_ptr' = SetPrevNode(level_zero_ptr, level, node)
    /\ prev_before' = level_zero_ptr
    /\ args' = <<"_set_prev_node", level, node>>
    /\ last' = "_set_prev_node"
    /\ exc' = "none"
    /\ exc_before' = exc
    /\ UNCHANGED <<obj, cfg, tree, root_node_id, x_top_adj, y_top_adj, before, writes,
                   runs, bonsai, parent_id_to_children, children_before, edits,
                   first_walk, apportions, returned>>

\* _init_prev_node_list()
InitPrevNodeListCall ==
    /\ obj
    /\ last \in {"construct", "_set_prev_node", "_init_prev_node_list"}
    /\ level_zero_ptr' = InitPrevNodeList(level_zero_ptr)
    /\ prev_before' = level_zero_ptr
    /\ args' = <<"_init_prev_node_list">>
    /\ last' = "_init_prev_node_list"
    /\ exc' = "none"
    /\ exc_before' = exc
    /\ UNCHANGED <<obj, cfg, tree, root_node_id, x_top_adj, y_top_adj, before, writes,
                   runs, bonsai, parent_id_to_children, children_before, edits,
                   first_walk, apportions, returned>>

SetAnyPrevNode ==
    /\ obj
    /\ \E level \in Levels : \E node \in PrevNodes : SetPrevNodeCall(level, node)

NextPrev == ConstructAny \/ SetAnyPrevNode \/ InitPrevNodeListCall

SpecPrev == Init /\ [][NextPrev]_vars

(***************************************************************************)
(* _get_leftmost called on its own on a populated tree.                    *)
(***************************************************************************)
AskedDepths == 0..MaxAskedDepth

\* _get_leftmost(node, 0, depth)
GetLeftmostCall(node, depth) ==
    /\ returned' = GetLeftmost(tree, node, 0, depth)
    /\ args' = <<"_get_leftmost", node, depth>>
    /\ last' = "_get_leftmost"
    /\ exc' = "none"
    /\ exc_before' = exc
    /\ UNCHANGED <<obj, cfg, tree, root_node_id, level_zero_ptr, x_top_adj, y_top_adj,
                   before, writes, runs, bonsai, parent_id_to_children,
                   children_before, edits, first_walk, apportions, prev_before>>

GetAnyLeftmost ==
    /\ obj /\ last = "populate" /\ exc = "none"
    /\ \E node \in DOMAIN tree : \E depth \in AskedDepths : GetLeftmostCall(node, depth)

NextLeftmost == ConstructAny \/ PopulateWithTree \/ GetAnyLeftmost

SpecLeftmost == Init /\ [][NextLeftmost]_vars

(***************************************************************************)
(* Bonsai: the tree kept as a mapping from parent id to the list of its    *)
(* children, laid out by a WalkerTree it builds anew after every change.   *)
(***************************************************************************)
\* bonsai.Node: pos.y is recomputed and never read, so only pos.x is kept.
BonsaiNode(id, x, is_leaf) == [id |-> id, x |-> x, is_leaf |-> is_leaf]

\* bonsai.Config: the five settings Bonsai hands to WalkerTree, which takes
\* its defaults for the four bounds.
Config(sibling_separation, subtree_separation, level_separation, max_depth, node_size) ==
    [sibling_separation |-> sibling_separation,
     subtree_separation |-> subtree_separation,
     level_separation |-> level_separation,
     max_depth |-> max_depth, node_size |-> node_size,
     min_x |-> NegInf, max_x |-> PosInf, min_y |-> NegInf, max_y |-> PosInf]

\* Config() with its defaults, and a Config without width or sibling gap.
DefaultConfig == Config(50, 100, 275, 100, 250)
BonsaiConfigs == {DefaultConfig, Config(0, 100, 275, 100, 0)}

\* The mappings a client builds a Bonsai from: any keys, any short lists.
BonsaiIds == {NodeNames[i] : i \in 1..MaxBonsaiIds}
InputXs == {-1, 0}
ChildLists ==
    UNION {[1..n -> {BonsaiNode(id, x, FALSE) : id \in BonsaiIds, x \in InputXs}] :
              n \in 0..(MaxBonsaiIds - 1)}
BonsaiInputs(keys) == [keys -> ChildLists]

\* The ids add_leaf and prune are called with: those of the first mapping
\* and one more; prune is also given None for a parent.
EditIds == {NodeNames[i] : i \in 1..(MaxBonsaiIds + 1)}

\* defaultdict: reading a missing key stores an empty list under it.
Touch(m, id) ==
    IF id \in DOMAIN m THEN m
    ELSE [k \in DOMAIN m \cup {id} |-> IF k = id THEN <<>> ELSE m[k]]

\* del self._parent_id_to_children[id]
Without(m, id) == [k \in DOMAIN m \ {id} |-> m[k]]

\* _mark_leaves
MarkLeaves(m) ==
    [p \in DOMAIN m |->
        [i \in DOMAIN m[p] |-> [m[p][i] EXCEPT !.is_leaf = (m[p][i].id \notin DOMAIN m)]]]

\* _update_is_leaf: the first child found with the id is updated.  The
\* lists are met in the order the keys were inserted, which the mapping
\* does not record: any list holding the id may be the first.
UpdateIsLeaf(m, node_id, is_leaf) ==
    LET holders == {p \in DOMAIN m : \E i \in DOMAIN m[p] : m[p][i].id = node_id}
        first(p) == SetMin({i \in DOMAIN m[p] : m[p][i].id = node_id})
    IN  IF holders = {} THEN {m}
        ELSE {[m EXCEPT ![p][first(p)].is_leaf = is_leaf] : p \in holders}

\* Mutant: the node is taken out of its parent's list and keeps its own.
DeleteNodeKeepKey(m, node_id, node_parent_id) ==
    [p \in DOMAIN m |->
        IF p = node_parent_id
        THEN SelectSeq(m[p], LAMBDA c : c.id # node_id)
        ELSE m[p]]

\* _delete_node
DeleteNode(m, node_id, node_parent_id) ==
    Without([p \in DOMAIN m |->
                IF p = node_parent_id
                THEN SelectSeq(m[p], LAMBDA c : c.id # node_id)
                ELSE m[p]],
            node_id)

\* The while loop of prune: the queue of (node id, parent id) pairs.
RECURSIVE PruneQueue(_, _)
PruneQueue(m, queue) ==
    IF queue = <<>> THEN m
    ELSE LET n_id == queue[1][1]
             Queued(m1) == [i \in DOMAIN m1[n_id] |-> <<m1[n_id][i].id, n_id>>]
             Step(m1) == PruneQueue(DeleteNode(m1, n_id, queue[1][2]),
                                    Tail(queue) \o Queued(m1))
         IN  Step(Touch(m, n_id))

\* sorted(children, key=lambda c: c.pos.x): a stable sort.
RECURSIVE SortedByX(_)
SortedByX(children) ==
    IF children = <<>> THEN <<>>
    ELSE LET c == children[Len(children)]
             Insert(r) ==
                 LET k == Cardinality({i \in DOMAIN r : r[i].x <= c.x})
                 IN  SubSeq(r, 1, k) \o <<c>> \o SubSeq(r, k + 1, Len(r))
         IN  Insert(SortedByX(SubSeq(children, 1, Len(children) - 1)))

\* WalkerTree.root_id of the boundary surface: the root populate_tree
\* found, UnidentifiedRootNode when it has found none.
root_id(w_root) == IF w_root = None THEN "UnidentifiedRootNode" ELSE w_root

\* _root_id when the WalkerTree knows no root: the keys that are nobody's
\* child.
child_ids(m) == UNION {{m[p][i].id : i \in DOMAIN m[p]} : p \in DOMAIN m}
RootIds(m) == {id \in DOMAIN m : id \notin child_ids(m)}

\* The WalkerNode objects _w_tree_setup builds, each with its id.
WalkerNodes(m, root) ==
    LET FirstChild(id) ==
            IF id \in DOMAIN m /\ m[id] # <<>> THEN m[id][1].id ELSE None
        ChildNode(p, i) ==
            Node(m[p][i].is_leaf,
                 IF i > 1 THEN m[p][i - 1].id ELSE None,
                 IF i < Len(m[p]) THEN m[p][i + 1].id ELSE None,
                 p,
                 FirstChild(m[p][i].id))
    IN  {[id |-> root, node |-> Node(m[root] = <<>>, None, None, None, FirstChild(root))]}
        \cup UNION {{[id |-> m[p][i].id, node |-> ChildNode(p, i)] : i \in DOMAIN m[p]} :
                       p \in DOMAIN m}

\* The stores populate_tree can leave for a set of nodes: of the nodes that
\* share an id, the one the loop over the set meets last stays.
Stores(nodes) ==
    {Populated(EmptyTree, f) :
        f \in {g \in [{w.id : w \in nodes} -> {w.node : w \in nodes}] :
                  \A id \in DOMAIN g : [id |-> id, node |-> g[id]] \in nodes}}

\* Mutant: _w_tree_setup goes on with a mapping that has no key.
NoNodesNever(m) == FALSE

\* `if not self._parent_id_to_children: return`
NoNodes(m) == DOMAIN m = {}

\* _w_tree_setup on mapping m: the ways it can end.  mapping is what it
\* leaves in _parent_id_to_children, tree and root are the new WalkerTree's
\* store and root, err is the exception that left it.
WTreeSetup(m, conf) ==
    LET Ended(mapping, t, root, err) ==
            [mapping |-> mapping, tree |-> t, root |-> root, err |-> err]
        Populate(sorted, root) ==
            UNION {{Ended(sorted, t,
                          IF e = "none" THEN CHOOSE n \in no_parent_node_ids(t) : TRUE
                          ELSE None,
                          e) : e \in ValidateTree(t)} :
                      t \in Stores(WalkerNodes(sorted, root))}
        Build(sorted) ==
            IF Cardinality(RootIds(sorted)) # 1
            THEN {Ended(sorted, EmptyTree, None, "ValueError")}
            ELSE Populate(sorted, CHOOSE id \in RootIds(sorted) : TRUE)
    IN  IF ValidateConfiguration(conf) # "none"
        THEN {Ended(m, EmptyTree, None, ValidateConfiguration(conf))}
        ELSE IF NoNodes(m) THEN {Ended(m, EmptyTree, None, "none")}
        ELSE Build([p \in DOMAIN m |-> SortedByX(m[p])])

\* list_nodes: the ids of the nodes it returns, or the name of the exception
\* that get_position raises for one of them.
list_nodes(m, t) ==
    LET ids == DOMAIN m \cup child_ids(m)
    IN  IF ids = {} THEN {}
        ELSE IF DOMAIN t = {} THEN "InvalidTree"
        ELSE IF \E id \in ids : Truthy(id) /\ id \notin DOMAIN t
        THEN "NodeDoesNotExist"
        ELSE IF \E id \in ids : ~Truthy(id) THEN "AttributeError"
        ELSE ids

\* list_nodes when get_position raises nothing: the Node objects returned.
\* One that equals a Node already in the list is not added, so the list is
\* the set of its members; pos is the point of the WalkerTree node.
ListedNodes(m, t) ==
    {[id |-> p, pos |-> t[p].point, is_leaf |-> FALSE] : p \in DOMAIN m}
        \cup UNION {{[id |-> m[p][i].id, pos |-> t[m[p][i].id].point,
                       is_leaf |-> m[p][i].is_leaf] : i \in DOMAIN m[p]} :
                       p \in DOMAIN m}

\* _reposition on mapping m: leaves are marked, a new WalkerTree is set up
\* and, unless that raised, position_tree is called on it.
Reposition(m) ==
    \E s \in WTreeSetup(MarkLeaves(m), cfg) :
        \E r \in {IF s.err = "none"
                  THEN PositionTree(s.tree, s.root, <<>>, Zero, Zero)
                  ELSE [tree |-> s.tree, prev |-> <<>>, err |-> s.err,
                        writes |-> [n \in DOMAIN s.tree |-> 0],
                        x_top_adj |-> Zero, y_top_adj |-> Zero,
                        first_walk |-> "none", log |-> <<>>]} :
            /\ parent_id_to_children' = s.mapping
            /\ tree' = r.tree
            /\ root_node_id' = s.root
            /\ level_zero_ptr' = r.prev
            /\ x_top_adj' = r.x_top_adj
            /\ y_top_adj' = r.y_top_adj
            /\ writes' = r.writes
            /\ first_walk' = r.first_walk
            /\ apportions' = r.log
            /\ prev_before' = level_zero_ptr
            /\ returned' = None
            /\ exc' = r.err

\* A call that raised before it reached _reposition: the mapping is left as
\* the call had made it, the WalkerTree as it was.
Raise(m, e) ==
    /\ parent_id_to_children' = m
    /\ exc' = e
    /\ UNCHANGED <<tree, root_node_id, level_zero_ptr, x_top_adj, y_top_adj, writes,
                   walk_vars>>

\* Config(...): the client chooses the settings of the Bonsai to come.
MakeConfig ==
    /\ last = "none"
    /\ \E c \in BonsaiConfigs : cfg' = c
    /\ last' = "config"
    /\ exc' = "none"
    /\ exc_before' = exc
    /\ UNCHANGED <<obj, tree, root_node_id, level_zero_ptr, x_top_adj, y_top_adj,
                   before, writes, runs, bonsai_vars, walk_vars>>

\* Bonsai(tree, config): the keys are strings here, so _validate passes; the
\* object exists when the first layout has raised nothing.
BonsaiNew ==
    /\ last = "config"
    /\ \E keys \in SUBSET BonsaiIds :
           \E m \in BonsaiInputs(keys) :
               /\ Reposition(m)
               /\ children_before' = m
    /\ bonsai' = (exc' = "none")
    /\ obj' = (ValidateConfiguration(cfg) = "none")
    /\ args' = <<"Bonsai">>
    /\ before' = tree
    /\ last' = "bonsai"
    /\ exc_before' = exc
    /\ UNCHANGED <<cfg, runs, edits>>

\* add_leaf(node_id, parent_id)
AddLeaf(node_id, parent_id) ==
    LET m == Touch(parent_id_to_children, parent_id)
        siblings == m[parent_id]
        rightmost_sibling_x == SetMax({0} \cup {siblings[i].x : i \in DOMAIN siblings})
        Appended ==
            [m EXCEPT ![parent_id] =
                Append(siblings, BonsaiNode(node_id, rightmost_sibling_x + 1, TRUE))]
    IN  /\ IF \E i \in DOMAIN siblings : siblings[i].id = node_id
           THEN Raise(m, "ValueError")
           ELSE \E m1 \in UpdateIsLeaf(Appended, parent_id, FALSE) : Reposition(m1)
        /\ args' = <<"add_leaf", node_id, parent_id>>

\* prune(node_id, node_parent_id)
Prune(node_id, node_parent_id) ==
    LET Emptied(m) ==
            \E m1 \in UpdateIsLeaf(m, node_parent_id, TRUE) :
                IF root_id(root_node_id) = "UnidentifiedRootNode"
                THEN Raise(m1, "UnidentifiedRootNode")
                ELSE IF node_parent_id # root_id(root_node_id)
                THEN Reposition(Without(m1, node_parent_id))
                ELSE Reposition(m1)
        Pruned(m) == IF m[node_parent_id] = <<>> THEN Emptied(m) ELSE Reposition(m)
    IN  /\ Pruned(Touch(PruneQueue(parent_id_to_children,
                                   <<<<node_id, node_parent_id>>>>),
                        node_parent_id))
        /\ args' = <<"prune", node_id, node_parent_id>>

\* What every add_leaf and prune does besides.
Edited ==
    /\ children_before' = parent_id_to_children
    /\ before' = tree
    /\ edits' = edits + 1
    /\ exc_before' = exc
    /\ UNCHANGED <<obj, cfg, runs, bonsai>>

AddAnyLeaf ==
    /\ bonsai /\ edits < MaxEdits
    /\ \E node_id \in EditIds : \E parent_id \in EditIds : AddLeaf(node_id, parent_id)
    /\ last' = "add_leaf"
    /\ Edited
PruneAny ==
    /\ bonsai /\ edits < MaxEdits
    /\ \E node_id \in EditIds :
           \E node_parent_id \in EditIds \cup {None} : Prune(node_id, node_parent_id)
    /\ last' = "prune"
    /\ Edited

\* The WalkerTree driven directly with the descriptor of one node, whatever
\* its links.
PopulateWithOne ==
    /\ obj /\ last = "construct"
    /\ \E id \in RawIds : \E nodes \in RawInputs({id}) : PopulateTree(nodes)

\* A client's session: a Bonsai built and edited, or a WalkerTree used as the
\* Bonsai uses it.
NextBonsai ==
    \/ MakeConfig \/ BonsaiNew \/ AddAnyLeaf \/ PruneAny
    \/ ConstructRaw \/ PopulateWithOne \/ Position
SpecBonsai == Init /\ [][NextBonsai]_vars

(***************************************************************************)
(* Vocabulary of the properties: the tree read off the store's links,      *)
(* independently of what the walks computed.                               *)
(***************************************************************************)
Nodes == DOMAIN tree
X(n) == tree[n].point.x
Y(n) == tree[n].point.y

\* position_tree has just returned normally.
Positioned == last = "position" /\ exc = "none"

\* Number of parent links from n to the root.
RECURSIVE Level(_)
Level(n) == IF tree[n].parent = None THEN 0 ELSE 1 + Level(tree[n].parent)

\* The children of a node from c rightwards, in order.
RECURSIVE SiblingsFrom(_)
SiblingsFrom(c) ==
    IF c = None THEN <<>> ELSE <<c>> \o SiblingsFrom(tree[c].right_sibling)
ChildrenOf(n) == SiblingsFrom(tree[n].first_child)
LastChild(n) == ChildrenOf(n)[Len(ChildrenOf(n))]

\* The nodes below and including n in preorder: left-to-right tree order.
RECURSIVE Preorder(_)
RECURSIVE PreorderAll(_)
PreorderAll(cs) ==
    IF cs = <<>> THEN <<>> ELSE Preorder(Head(cs)) \o PreorderAll(Tail(cs))
Preorder(n) == <<n>> \o PreorderAll(ChildrenOf(n))

TreeOrder == Preorder(root_node_id)
OrderOf(n) == CHOOSE i \in 1..Len(TreeOrder) : TreeOrder[i] = n

\* m is the node immediately to the left of n at n's level.
LeftNeighborOf(m, n) ==
    /\ Level(m) = Level(n)
    /\ OrderOf(m) < OrderOf(n)
    /\ \A k \in Nodes :
          Level(k) = Level(n) => ~(OrderOf(m) < OrderOf(k) /\ OrderOf(k) < OrderOf(n))

\* Sum of the modifiers of the proper ancestors of n.
RECURSIVE AncestorModifiers(_)
AncestorModifiers(n) ==
    IF tree[n].parent = None THEN Zero
    ELSE RAdd(tree[tree[n].parent].modifier, AncestorModifiers(tree[n].parent))

\* Some sibling was moved by _apportion: its distance to its left sibling is
\* larger than the one _first_walk gave it.
SomeSiblingShifted ==
    \E a, b \in Nodes :
        /\ tree[a].right_sibling = b
        /\ RLt(R(cfg.sibling_separation + cfg.node_size),
               RSub(tree[b].prelim, tree[a].prelim))

(***************************************************************************)
(* C1.  After a successful position_tree, any two adjacent siblings A and  *)
(* B (A.right_sibling = B) are at least sibling_separation + node_size     *)
(* apart: B.x - A.x >= sibling_separation + node_size, also where          *)
(* _apportion has shifted siblings.                                        *)
(***************************************************************************)
C1_SiblingSeparation ==
    Positioned =>
        \A a, b \in Nodes :
            tree[a].right_sibling = b =>
                RLe(R(cfg.sibling_separation + cfg.node_size), RSub(X(b), X(a)))

C1_Witness ==
    /\ Positioned
    /\ SomeSiblingShifted
    /\ cfg.sibling_separation + cfg.node_size > 0

(***************************************************************************)
(* C2.  After a successful position_tree subtrees do not overlap: a node n *)
(* whose left neighbour m at its level has another parent satisfies        *)
(* n.x - m.x >= subtree_separation + node_size, and with node_size > 0 the *)
(* x-coordinates of a level increase strictly from left to right.          *)
(***************************************************************************)
C2_SubtreeSeparation ==
    Positioned =>
        \A m, n \in Nodes :
            LeftNeighborOf(m, n) =>
                /\ tree[m].parent # tree[n].parent =>
                      RLe(R(cfg.subtree_separation + cfg.node_size), RSub(X(n), X(m)))
                /\ cfg.node_size > 0 => RLt(X(m), X(n))

C2_Witness ==
    /\ Positioned
    /\ SomeSiblingShifted
    /\ cfg.node_size > 0
    /\ \E m, n \in Nodes :
          /\ LeftNeighborOf(m, n)
          /\ tree[m].parent # tree[n].parent
          /\ tree[tree[m].parent].right_sibling # tree[n].parent

(***************************************************************************)
(* C4.  After a successful position_tree every internal node without a     *)
(* left sibling lies at the midpoint of its first and its last child:      *)
(* x = (first_child.x + last_child.x) / 2.                                 *)
(***************************************************************************)
CentredOverChildren(n) ==
    RMulInt(X(n), 2) = RAdd(X(tree[n].first_child), X(LastChild(n)))

C4_ParentCentred ==
    Positioned =>
        \A n \in Nodes :
            (~tree[n].is_leaf /\ tree[n].left_sibling = None) => CentredOverChildren(n)

C4_Witness ==
    /\ Positioned
    /\ \E n \in Nodes :
          /\ ~tree[n].is_leaf /\ tree[n].left_sibling = None
          /\ tree[n].parent # None
          /\ Len(ChildrenOf(n)) >= 2
          /\ \E c \in Nodes : tree[c].parent = n /\ tree[c].modifier # Zero
          /\ X(n) # Zero

(***************************************************************************)
(* C5.  After a successful position_tree every node n has                  *)
(* y = root.y + level(n) * level_separation, level(n) being the number of  *)
(* parent links from n to the root.                                        *)
(***************************************************************************)
C5_Depth ==
    Positioned =>
        \A n \in Nodes :
            Y(n) = RAdd(Y(root_node_id), R(Level(n) * cfg.level_separation))

C5_Witness ==
    /\ Positioned
    /\ cfg.level_separation > 0
    /\ \E n \in Nodes : Level(n) >= 3

(***************************************************************************)
(* C3.  For every node set that populate_tree accepts, position_tree       *)
(* terminates (no endless loop over right-sibling links, no endless        *)
(* recursion) and, when it returns normally, the second walk has given     *)
(* every node of the store exactly one point.                              *)
(***************************************************************************)
C3_TerminatesAndPlacesAll ==
    (last = "position" /\ root_node_id # None) =>
        /\ exc \notin {"Diverges", "RecursionError"}
        /\ exc = "none" => \A n \in Nodes : writes[n] = 1

(***************************************************************************)
(* C6.  position_tree is idempotent: after a call that returned, a second  *)
(* call on the same store returns too and leaves every node's point as the *)
(* first call left it.                                                     *)
(***************************************************************************)
C6_Idempotent ==
    (last = "position" /\ runs = 2 /\ exc_before = "none") =>
        /\ exc = "none"
        /\ \A n \in Nodes : tree[n].point = before[n].point

C6_Witness ==
    /\ Positioned /\ runs = 2
    /\ SomeSiblingShifted
    /\ Len(level_zero_ptr) >= 3
    /\ \A n \in Nodes : before[n].left_neighbor = tree[n].left_neighbor
    /\ \E n \in Nodes : tree[n].left_neighbor # None

(***************************************************************************)
(* C7.  The 15-node tree of walker_tree_sample.py, with                    *)
(* sibling_separation 4, subtree_separation 4, level_separation 1 and      *)
(* node_size 2, is laid out as published, the root O at (0, 0), on every   *)
(* run.                                                                    *)
(***************************************************************************)
IsSample ==
    /\ Nodes = DOMAIN SampleNodes
    /\ \A n \in Nodes :
          /\ tree[n].is_leaf = SampleNodes[n].is_leaf
          /\ tree[n].left_sibling = SampleNodes[n].left_sibling
          /\ tree[n].right_sibling = SampleNodes[n].right_sibling
          /\ tree[n].parent = SampleNodes[n].parent
          /\ tree[n].first_child = SampleNodes[n].first_child

SampleSpacing ==
    /\ cfg.sibling_separation = 4 /\ cfg.subtree_separation = 4
    /\ cfg.level_separation = 1 /\ cfg.node_size = 2

\* The published coordinates, x in halves: node -> <<2 * x, y>>.
Published ==
    [n \in DOMAIN SampleNodes |->
        CASE n = "O" -> <<0, 0>>
          [] n = "E" -> <<-21, 1>>
          [] n = "F" -> <<0, 1>>
          [] n = "N" -> <<21, 1>>
          [] n = "A" -> <<-27, 2>>
          [] n = "D" -> <<-15, 2>>
          [] n = "G" -> <<15, 2>>
          [] n = "M" -> <<27, 2>>
          [] n = "B" -> <<-21, 3>>
          [] n = "C" -> <<-9, 3>>
          [] n = "H" -> <<3, 3>>
          [] n = "I" -> <<15, 3>>
          [] n = "J" -> <<27, 3>>
          [] n = "K" -> <<39, 3>>
          [] n = "L" -> <<51, 3>>]

C7_SampleLayout ==
    (Positioned /\ IsSample /\ SampleSpacing) =>
        \A n \in Nodes :
            tree[n].point = Point(Rat(Published[n][1], 2), R(Published[n][2]))

C7_Witness == Positioned /\ IsSample /\ SampleSpacing /\ runs = 2

(***************************************************************************)
(* C8.  position_tree leaves the root's point as it was before the run,    *)
(* the origin for a newly populated tree, and places every other node      *)
(* relative to it: x = root.x - root.prelim + node.prelim + the modifiers  *)
(* of the node's ancestors.                                                *)
(***************************************************************************)
C8_RootFixed ==
    (last = "position" /\ root_node_id # None) =>
        /\ tree[root_node_id].point = before[root_node_id].point
        /\ runs = 1 => tree[root_node_id].point = Point(Zero, Zero)
        /\ exc = "none" =>
              \A n \in Nodes :
                  X(n) = RAdd(RAdd(RSub(X(root_node_id), tree[root_node_id].prelim),
                                   tree[n].prelim),
                              AncestorModifiers(n))

C8_Witness ==
    /\ Positioned
    /\ tree[root_node_id].prelim # Zero
    /\ \E n \in Nodes : AncestorModifiers(n) # Zero /\ X(n) # Zero

(***************************************************************************)
(* C9.  If the layout would put a node outside [min_x, max_x] or           *)
(* [min_y, max_y], position_tree fails with TreeOutOfCoordinateRange; it   *)
(* never alters a coordinate to make it fit and never stores a point       *)
(* outside the bounds.                                                     *)
(***************************************************************************)
\* Where the second walk puts, or would put, node n.
LayoutX(n) == RAdd(RAdd(x_top_adj, tree[n].prelim), AncestorModifiers(n))
LayoutY(n) == RAdd(y_top_adj, R(Level(n) * cfg.level_separation))
Outside(x, y) ==
    \/ ELt(x, cfg.min_x) \/ ELt(cfg.max_x, x)
    \/ ELt(y, cfg.min_y) \/ ELt(cfg.max_y, y)
LaidOutside(n) == Outside(LayoutX(n), LayoutY(n))
TooDeep(n) == Level(n) > cfg.max_depth

\* What the run stored is the layout, unaltered and inside the bounds; what
\* it did not store is as it was.
StoredAsLaidOut ==
    \A n \in Nodes :
        IF writes[n] > 0
        THEN /\ tree[n].point = Point(LayoutX(n), LayoutY(n))
             /\ ~Outside(X(n), Y(n))
        ELSE tree[n].point = before[n].point

\* The claim as made.
C9_OutOfRangeAlwaysReported ==
    (last = "position" /\ root_node_id # None) =>
        /\ (\E n \in Nodes : LaidOutside(n)) => exc = "TreeOutOfCoordinateRange"
        /\ StoredAsLaidOut

\* The claim as amended: the run fails with TreeOutOfCoordinateRange unless
\* the second walk comes to a node deeper than max_depth before, or at, the
\* first node laid outside the bounds; it then fails with MaxDepthExceeded.
C9_OutOfRangeReportedUnlessTooDeep ==
    (last = "position" /\ root_node_id # None) =>
        /\ (\E n \in Nodes : LaidOutside(n)) =>
              /\ exc \in {"TreeOutOfCoordinateRange", "MaxDepthExceeded"}
              /\ exc = "MaxDepthExceeded" <=>
                    \E d \in Nodes :
                        /\ TooDeep(d)
                        /\ \A n \in Nodes : LaidOutside(n) => OrderOf(d) <= OrderOf(n)
        /\ StoredAsLaidOut

C9_Witness ==
    /\ last = "position"
    /\ exc = "TreeOutOfCoordinateRange"
    /\ \E n \in Nodes : ELt(cfg.max_x, LayoutX(n))
    /\ \E n \in Nodes : writes[n] > 0 /\ tree[n].parent # None

(***************************************************************************)
(* C10.  The constructor fails with InvalidTreeConfiguration exactly when  *)
(* one of the five spacing settings is negative or min_x >= max_x or       *)
(* min_y >= max_y; zero spacings are accepted; after the failure there is  *)
(* no object to populate.                                                  *)
(***************************************************************************)
Refused(c) ==
    \/ \E v \in {c.sibling_separation, c.subtree_separation, c.level_separation,
                 c.max_depth, c.node_size} : v < 0
    \/ ~ELt(c.min_x, c.max_x)
    \/ ~ELt(c.min_y, c.max_y)

C10_ConfigurationChecked ==
    /\ last = "construct" =>
          /\ exc = "InvalidTreeConfiguration" <=> Refused(cfg)
          /\ exc \in {"none", "InvalidTreeConfiguration"}
    /\ (last # "none" /\ Refused(cfg)) => (~obj /\ Nodes = {} /\ last = "construct")

C10_Witness ==
    /\ last = "construct"
    /\ exc = "InvalidTreeConfiguration"
    /\ cfg.sibling_separation = -1
    /\ cfg.subtree_separation >= 0 /\ cfg.level_separation >= 0
    /\ cfg.max_depth >= 0 /\ cfg.node_size >= 0
    /\ ELt(cfg.min_x, cfg.max_x) /\ ELt(cfg.min_y, cfg.max_y)

(***************************************************************************)
(* C11.  populate_tree fails with InvalidTree whenever the number of nodes *)
(* of the store whose parent is None is not exactly one; when it succeeds, *)
(* the recorded root is the one node whose parent is None.                 *)
(***************************************************************************)
Rootless == {n \in Nodes : tree[n].parent = None}

C11_OneRootOrInvalidTree ==
    (last = "populate") =>
        /\ Cardinality(Rootless) # 1 => exc = "InvalidTree"
        /\ exc = "none" => Rootless = {root_node_id}

(***************************************************************************)
(* C12.  populate_tree fails with InvalidTree whenever some node is a leaf *)
(* with a first_child set, or is no leaf and has no first_child.           *)
(***************************************************************************)
LeafFlagDisagrees(n) ==
    \/ tree[n].is_leaf /\ tree[n].first_child # None
    \/ ~tree[n].is_leaf /\ tree[n].first_child = None

C12_LeafFlagChecked ==
    (last = "populate" /\ \E n \in Nodes : LeafFlagDisagrees(n)) =>
        exc = "InvalidTree"

(***************************************************************************)
(* C13.  populate_tree fails with InvalidTree whenever a link is not       *)
(* consistent: a parent, left_sibling, right_sibling or first_child id     *)
(* that is not in the store; a right sibling whose left_sibling is not the *)
(* node, or the mirror case; a first child whose parent is not the node.   *)
(***************************************************************************)
LinksOf(n) ==
    {tree[n].parent, tree[n].left_sibling, tree[n].right_sibling,
     tree[n].first_child} \ {None}

LinkBroken(n) ==
    \/ \E id \in LinksOf(n) : id \notin Nodes
    \/ /\ tree[n].right_sibling \in Nodes
       /\ tree[tree[n].right_sibling].left_sibling # n
    \/ /\ tree[n].left_sibling \in Nodes
       /\ tree[tree[n].left_sibling].right_sibling # n
    \/ /\ tree[n].first_child \in Nodes
       /\ tree[tree[n].first_child].parent # n

C13_LinksChecked ==
    (last = "populate" /\ \E n \in Nodes : LinkBroken(n)) =>
        exc = "InvalidTree"

(***************************************************************************)
(* C14.  position_tree fails with MaxDepthExceeded whenever the tree holds *)
(* a node whose level is greater than max_depth, and never returns         *)
(* normally for such a tree; for a tree with no such node it never raises  *)
(* MaxDepthExceeded.                                                       *)
(***************************************************************************)
\* The claim as made.
C14_TooDeepAlwaysReported ==
    (last = "position" /\ root_node_id # None) =>
        /\ (\E d \in Nodes : TooDeep(d)) => exc = "MaxDepthExceeded"
        /\ (\A d \in Nodes : ~TooDeep(d)) => exc # "MaxDepthExceeded"

\* The claim as amended: the run of a tree with a node deeper than
\* max_depth never returns normally; it fails with MaxDepthExceeded unless
\* the second walk comes to a node laid outside the bounds before the first
\* node deeper than max_depth, and then with TreeOutOfCoordinateRange.
C14_TooDeepReportedUnlessOutOfRange ==
    (last = "position" /\ root_node_id # None) =>
        /\ (\E d \in Nodes : TooDeep(d)) =>
              /\ exc \in {"MaxDepthExceeded", "TreeOutOfCoordinateRange"}
              /\ exc = "TreeOutOfCoordinateRange" <=>
                    \E n \in Nodes :
                        /\ LaidOutside(n)
                        /\ \A d \in Nodes : TooDeep(d) => OrderOf(n) < OrderOf(d)
        /\ (\A d \in Nodes : ~TooDeep(d)) => exc # "MaxDepthExceeded"

C14_Witness ==
    /\ last = "position"
    /\ exc = "MaxDepthExceeded"
    /\ cfg.max_depth = 2
    /\ \E d \in Nodes : Level(d) = 3

(***************************************************************************)
(* C16.  No partial success: when position_tree fails in the second walk   *)
(* (TreeOutOfCoordinateRange or MaxDepthExceeded), the run has given no    *)
(* node a point: every node carries the point it had before the run.       *)
(***************************************************************************)
C16_NoPartialSuccess ==
    (last = "position" /\ exc \in {"TreeOutOfCoordinateRange", "MaxDepthExceeded"}) =>
        \A n \in Nodes : writes[n] = 0 /\ tree[n].point = before[n].point

\* C15: position_tree raises InvalidTree when the store is empty or no root
\* has been resolved, and then walks nothing and changes no node; so a
\* Bonsai built from a mapping without keys raises InvalidTree.
C15_NothingToPosition ==
    /\ (last = "position" /\ (DOMAIN before = {} \/ root_node_id = None))
           => /\ exc = "InvalidTree"
              /\ tree = before
              /\ \A n \in Nodes : writes[n] = 0
    /\ (last = "bonsai" /\ DOMAIN children_before = {})
           => /\ exc = "InvalidTree"
              /\ ~bonsai
              /\ Nodes = {}
C15_Witness ==
    /\ last = "position" /\ exc_before = "InvalidTree"
    /\ Nodes # {} /\ root_node_id = None /\ exc = "InvalidTree"
\* The two other cases of C15: a new WalkerTree, and a Bonsai without nodes.
C15_WitnessEmptyStore == last = "position" /\ before = EmptyTree /\ exc = "InvalidTree"
C15_WitnessEmptyMapping ==
    last = "bonsai" /\ DOMAIN children_before = {} /\ exc = "InvalidTree"

(***************************************************************************)
(* Vocabulary of the Bonsai properties.                                    *)
(***************************************************************************)
\* The ids of the nodes of a mapping: its keys and the children they list.
NodeIds(m) == DOMAIN m \cup child_ids(m)

\* The places of a mapping: which id is listed under which parent.
Places(m) == UNION {{<<p, m[p][i].id>> : i \in DOMAIN m[p]} : p \in DOMAIN m}

\* The ids listed under parent p, none when p is no key.
ListedUnder(m, p) ==
    IF p \in DOMAIN m THEN {m[p][i].id : i \in DOMAIN m[p]} ELSE {}

\* The ids reached from the ids of S along the lists of m.
RECURSIVE Reach(_, _)
Reach(m, S) ==
    LET T == S \cup UNION {ListedUnder(m, p) : p \in S}
    IN  IF T = S THEN S ELSE Reach(m, T)

\* Number of entries of the lists of m.
RECURSIVE Entries(_, _)
Entries(m, keys) ==
    IF keys = {} THEN 0
    ELSE LET p == CHOOSE k \in keys : TRUE
         IN  Len(m[p]) + Entries(m, keys \ {p})

\* The mapping describes a tree: one key is nobody's child, every id is
\* reached from it, and no id is listed twice.
IsTree(m) ==
    /\ Cardinality(RootIds(m)) = 1
    /\ Reach(m, RootIds(m)) = NodeIds(m)
    /\ Entries(m, DOMAIN m) = Cardinality(child_ids(m))
RootOf(m) == CHOOSE r \in RootIds(m) : TRUE

\* The last call was add_leaf or prune, made on a Bonsai whose last call had
\* returned normally.
Called(op) == last = op /\ exc_before = "none"

\* C17: add_leaf raises ValueError whenever node_id is already the id of a
\* node of the tree, under parent_id, under another parent or as the root,
\* and then adds no node.
C17_DuplicateIdRefused ==
    (Called("add_leaf") /\ args[2] \in NodeIds(children_before))
        => /\ exc = "ValueError"
           /\ Places(parent_id_to_children) = Places(children_before)

\* add_leaf(node_id, parent_id) has just returned normally.
LeafAdded == last = "add_leaf" /\ exc = "none"
NewLeaf == args[2]
NewParent == args[3]
\* The children listed under the new leaf's parent, the new leaf excepted.
OldSiblings ==
    {parent_id_to_children[NewParent][i].id :
        i \in 1..(Len(parent_id_to_children[NewParent]) - 1)}

\* The new node is a leaf and the last of its parent's children, in the
\* mapping and in the tree that was laid out.
NewLeafIsLast ==
    LET children == parent_id_to_children[NewParent] IN
    /\ NewParent \in DOMAIN parent_id_to_children
    /\ children # <<>>
    /\ children[Len(children)].id = NewLeaf
    /\ children[Len(children)].is_leaf
    /\ NewLeaf \notin OldSiblings
    /\ OldSiblings = ListedUnder(children_before, NewParent)
    /\ NewLeaf \in Nodes /\ NewParent \in Nodes
    /\ tree[NewLeaf].is_leaf
    /\ tree[NewLeaf].parent = NewParent
    /\ tree[NewLeaf].right_sibling = None
    /\ LastChild(NewParent) = NewLeaf

\* C18 as stated: after a successful add_leaf the new node is a leaf, the
\* rightmost child of parent_id, and its x is greater than the x of every
\* sibling.
C18_NewLeafStrictlyRightmost ==
    LeafAdded =>
        /\ NewLeafIsLast
        /\ \A sibling \in OldSiblings : RLt(X(sibling), X(NewLeaf))

\* What holds of the code instead: when the mapping is a tree, parent_id is
\* a node of it and node_id is not, the new leaf is the last child whatever the input x of
\* its siblings, at least sibling_separation + node_size to the right of
\* every one of them, which is strictly to the right unless both are 0.
C18_NewLeafRightmostInTree ==
    (LeafAdded /\ IsTree(children_before)
               /\ NewParent \in NodeIds(children_before)
               /\ NewLeaf \notin NodeIds(children_before))
        => /\ NewLeafIsLast
           /\ \A sibling \in OldSiblings :
                  RLe(RAdd(X(sibling), R(cfg.sibling_separation + cfg.node_size)),
                      X(NewLeaf))
C18_Witness ==
    /\ LeafAdded
    /\ IsTree(children_before)
    /\ cfg = DefaultConfig
    /\ Cardinality(OldSiblings) = 2
    /\ NewParent \in DOMAIN children_before
    /\ \A i \in DOMAIN children_before[NewParent] :
           children_before[NewParent][i].x < 0
\* The other case of C18: a root without children is given a leaf.
C18_WitnessBareRoot ==
    /\ LeafAdded /\ edits = 2 /\ IsTree(parent_id_to_children)
    /\ DOMAIN children_before = {NewParent}
    /\ children_before[NewParent] = <<>>

\* prune(node_id, node_parent_id) has just been called on a Bonsai that holds
\* a tree, for a node of it that is not its root.
Pruning == args[2]
PrunedBelow == args[3]
NonRootPruned ==
    /\ Called("prune")
    /\ IsTree(children_before)
    /\ Pruning \in NodeIds(children_before) \ RootIds(children_before)
ParentIn(m, id) == CHOOSE p \in DOMAIN m : id \in ListedUnder(m, p)

\* The ids listed under p in the order of the list.
IdsUnder(m, p) ==
    IF p \in DOMAIN m THEN [i \in DOMAIN m[p] |-> m[p][i].id] ELSE <<>>

\* What the claim says of the Bonsai after prune: the call returned, the
\* nodes are those of before without the subtree of the pruned node, under
\* the parents and in the order they had, all of them laid out anew; the
\* pruned node's parent is a leaf if it has no child left; the root is kept.
SubtreeRemoved ==
    LET gone == Reach(children_before, {Pruning})
        kept == NodeIds(children_before) \ gone
        parent == ParentIn(children_before, Pruning)
    IN  /\ exc = "none"
        /\ list_nodes(parent_id_to_children, tree) = kept
        /\ Nodes = kept
        /\ \A n \in kept :
               /\ writes[n] = 1
               /\ ChildrenOf(n) = SelectSeq(IdsUnder(children_before, n),
                                            LAMBDA c : c \notin gone)
               /\ ChildrenOf(n) = IdsUnder(parent_id_to_children, n)
        /\ ChildrenOf(parent) = <<>> => tree[parent].is_leaf
        /\ \A p \in DOMAIN parent_id_to_children :
               \A i \in DOMAIN parent_id_to_children[p] :
                   parent_id_to_children[p][i].is_leaf
                       = tree[parent_id_to_children[p][i].id].is_leaf
        /\ RootIds(children_before) \subseteq DOMAIN parent_id_to_children
        /\ root_node_id \in RootIds(children_before)

C19_WitnessParentBecomesLeaf ==
    /\ NonRootPruned
    /\ PrunedBelow = ParentIn(children_before, Pruning)
    /\ PrunedBelow \notin RootIds(children_before)
    /\ exc = "none"
    /\ tree[PrunedBelow].is_leaf

\* C20: prune applied to the root raises CannotPruneRoot and removes no node
\* from the tree.
C20_RootNotPruned ==
    (Called("prune") /\ IsTree(children_before)
                     /\ Pruning \in RootIds(children_before))
        => /\ exc = "CannotPruneRoot"
           /\ NodeIds(parent_id_to_children) = NodeIds(children_before)
           /\ Places(parent_id_to_children) = Places(children_before)

(***************************************************************************)
(* C21.  With max_depth fixed for the whole run, whenever                  *)
(* _first_walk(root, 0) returns normally the _second_walk(root, 0, 0) that *)
(* follows never raises MaxDepthExceeded.                                  *)
(***************************************************************************)
\* _first_walk(root, 0) of the last position_tree returned normally.
FirstWalkReturned == last = "position" /\ first_walk = "returned"

\* The claim as made.
C21_SecondWalkNeverTooDeep ==
    FirstWalkReturned => exc # "MaxDepthExceeded"

\* The claim as amended: the first walk takes a node at level max_depth for
\* a leaf and returns, the second walk goes on below it; it raises
\* MaxDepthExceeded exactly when the tree has a node deeper than max_depth
\* and no node ahead of the first such node is laid outside the bounds (the
\* depth of a node is tested before its coordinates).
C21_SecondWalkTooDeepBelowMaxDepth ==
    FirstWalkReturned =>
        (exc = "MaxDepthExceeded" <=>
            /\ \E d \in Nodes : Level(d) = cfg.max_depth + 1
            /\ \A n \in Nodes :
                  LaidOutside(n) => \E d \in Nodes : TooDeep(d) /\ OrderOf(d) <= OrderOf(n))

\* The first walk returned for a tree with an inner node at max_depth, and
\* the second walk raised below it.
C21_Witness ==
    /\ FirstWalkReturned
    /\ exc = "MaxDepthExceeded"
    /\ \E n \in Nodes : Level(n) = cfg.max_depth /\ ~tree[n].is_leaf

(***************************************************************************)
(* C22.  The previous-node list is a map from level to the node recorded   *)
(* last: for any level L >= 0 and any list before, the empty one included, *)
(* after _set_prev_node(L, n) the call _get_prev_node(L) returns n and     *)
(* _get_prev_node of every other level returns what it returned before; a  *)
(* level never set returns None; after _init_prev_node_list every level    *)
(* returns None.                                                           *)
(***************************************************************************)
\* The levels _get_prev_node is asked about: one more than can be set.
AskedLevels == 0..(MaxLevel + 1)

\* C22: after _set_prev_node(L, n) level L returns n and every other level
\* what it returned before, whatever the list was; after
\* _init_prev_node_list every level returns None.
C22_PrevNodeListIsLevelMap ==
    /\ last = "_set_prev_node" =>
          /\ GetPrevNode(level_zero_ptr, args[2]) = args[3]
          /\ \A k \in AskedLevels \ {args[2]} :
                GetPrevNode(level_zero_ptr, k) = GetPrevNode(prev_before, k)
    /\ last = "_init_prev_node_list" =>
          \A k \in AskedLevels : GetPrevNode(level_zero_ptr, k) = None

\* Where the statement does hold: on a list that has a level 0 already.
C22_LevelMapOnStartedList ==
    (last = "_set_prev_node" /\ prev_before # <<>>) =>
        /\ GetPrevNode(level_zero_ptr, args[2]) = args[3]
        /\ \A k \in AskedLevels \ {args[2]} :
              GetPrevNode(level_zero_ptr, k) = GetPrevNode(prev_before, k)

(***************************************************************************)
(* C23.  After the first walk of a run the left_neighbor of every visited  *)
(* node is the node immediately to its left at the same depth in           *)
(* left-to-right tree order, whatever its parent, and None for the         *)
(* leftmost visited node of each level; it is never a node of the node's   *)
(* own subtree and never a value left from a previous run.                 *)
(***************************************************************************)
\* The first walk visits the nodes down to level max_depth.
Visited(n) == Level(n) <= cfg.max_depth

\* n is below d or is d.
RECURSIVE InSubtree(_, _)
InSubtree(n, d) ==
    \/ n = d
    \/ tree[n].parent # None /\ InSubtree(tree[n].parent, d)

\* C23: after the first walk every visited node has the nearest node to its
\* left on its level for left_neighbor, None if there is none, and never a
\* node of its own subtree.
C23_LeftNeighborIsNextOnLevel ==
    FirstWalkReturned =>
        \A n \in Nodes :
            Visited(n) =>
                /\ IF \E m \in Nodes : LeftNeighborOf(m, n)
                   THEN /\ tree[n].left_neighbor \in Nodes
                        /\ LeftNeighborOf(tree[n].left_neighbor, n)
                   ELSE tree[n].left_neighbor = None
                /\ tree[n].left_neighbor # None =>
                      ~InSubtree(tree[n].left_neighbor, n)

\* A second run in which a node has a cousin for left neighbour and the
\* leftmost node of a level below the root has none.
C23_Witness ==
    /\ FirstWalkReturned
    /\ runs = 2
    /\ \E n \in Nodes :
          /\ tree[n].left_neighbor # None
          /\ tree[tree[n].left_neighbor].parent # tree[n].parent
    /\ \E n \in Nodes :
          /\ Level(n) = 2
          /\ tree[n].left_neighbor = None

(***************************************************************************)
(* C24.  _get_leftmost(node, 0, depth) returns the leftmost descendant of  *)
(* node exactly depth levels below node (node itself for depth 0),         *)
(* skipping the children whose subtree does not reach that depth, and None *)
(* exactly when node has no descendant at that depth; the result is not    *)
(* limited to the chain of first-child links.                              *)
(***************************************************************************)
\* The descendants of node that are depth levels below it.
DescendantsAt(node, depth) ==
    {k \in Nodes : InSubtree(k, node) /\ Level(k) = Level(node) + depth}

\* n is reached from node by first-child links alone.
RECURSIVE OnFirstChildChain(_, _)
OnFirstChildChain(n, node) ==
    \/ n = node
    \/ /\ tree[n].parent # None
       /\ tree[tree[n].parent].first_child = n
       /\ OnFirstChildChain(tree[n].parent, node)

\* C24: _get_leftmost(node, 0, depth) is the first node in tree order among
\* the descendants of node at that depth, None exactly when there is none.
C24_LeftmostAtDepth ==
    last = "_get_leftmost" =>
        IF DescendantsAt(args[2], args[3]) = {}
        THEN returned = None
        ELSE /\ returned \in DescendantsAt(args[2], args[3])
             /\ \A k \in DescendantsAt(args[2], args[3]) :
                   OrderOf(returned) <= OrderOf(k)

\* The result lies off the chain of first children: the first child's
\* subtree was skipped as too shallow.
C24_Witness ==
    /\ last = "_get_leftmost"
    /\ returned # None
    /\ args[3] >= 2
    /\ ~OnFirstChildChain(returned, args[2])

\* An inner node with nothing at the depth asked for.
C24_WitnessNone ==
    /\ last = "_get_leftmost"
    /\ returned = None
    /\ ~tree[args[2]].is_leaf

(***************************************************************************)
(* C25.  In one iteration of _apportion(node, level) with                  *)
(* move_distance > 0: if the neighbor's ancestor at node's level is not    *)
(* reached by walking left-sibling links from node, the call returns       *)
(* without changing any prelim or modifier in that iteration; otherwise,   *)
(* with k the number of siblings from node (inclusive) up to that ancestor *)
(* (exclusive), the i-th sibling to the left of node (i = 0 for node       *)
(* itself, i < k) has both its prelim and its modifier increased by        *)
(* move_distance * (k - i) / k, and no other node's prelim or modifier, in *)
(* particular not the ancestor's, changes.                                 *)
(***************************************************************************)
\* The i-th sibling to the left of n, None past the first one.
RECURSIVE LeftSiblingAt(_, _)
LeftSiblingAt(n, i) ==
    IF i = 0 \/ n = None THEN n ELSE LeftSiblingAt(tree[n].left_sibling, i - 1)

\* a is met on the way from n along left-sibling links.
ReachedFrom(n, a) == \E i \in 0..Cardinality(Nodes) : LeftSiblingAt(n, i) = a
SiblingsUpTo(n, a) ==
    CHOOSE i \in 0..Cardinality(Nodes) :
        /\ LeftSiblingAt(n, i) = a
        /\ \A j \in 0..(i - 1) : LeftSiblingAt(n, j) # a

Share(move_distance, k, i) == RDivInt(RMulInt(move_distance, k - i), k)
Raised(shift, d) == <<RAdd(shift[1], d), RAdd(shift[2], d)>>

\* What the claim says of the iteration recorded as e.
IterationAsClaimed(e) ==
    /\ RLt(Zero, e.move_distance)
    /\ IF ~ReachedFrom(e.node, e.ancestor_neighbor)
       THEN e.to = e.from
       ELSE \A n \in Nodes :
                IF \E i \in 0..(SiblingsUpTo(e.node, e.ancestor_neighbor) - 1) :
                       n = LeftSiblingAt(e.node, i)
                THEN \E i \in 0..(SiblingsUpTo(e.node, e.ancestor_neighbor) - 1) :
                         /\ n = LeftSiblingAt(e.node, i)
                         /\ e.to[n] =
                               Raised(e.from[n],
                                      Share(e.move_distance,
                                            SiblingsUpTo(e.node, e.ancestor_neighbor), i))
                ELSE e.to[n] = e.from[n]

\* An iteration that did not reach the ancestor is the last of its call.
ReturnedUnreached(j) ==
    ~ReachedFrom(apportions[j].node, apportions[j].ancestor_neighbor) =>
        \A j2 \in DOMAIN apportions : j2 > j => apportions[j2].node # apportions[j].node

\* C25: every iteration of _apportion with move_distance > 0 either leaves
\* all prelims and modifiers alone and ends the call, or raises those of the
\* i-th of k siblings by move_distance * (k - i) / k and no others.
C25_ApportionIteration ==
    last = "position" =>
        \A j \in DOMAIN apportions :
            IterationAsClaimed(apportions[j]) /\ ReturnedUnreached(j)

\* An iteration that shifted node by the whole distance and the sibling
\* between it and the ancestor by half of it.
C25_Witness ==
    /\ last = "position"
    /\ \E j \in DOMAIN apportions :
          /\ ReachedFrom(apportions[j].node, apportions[j].ancestor_neighbor)
          /\ SiblingsUpTo(apportions[j].node, apportions[j].ancestor_neighbor) = 2
          /\ apportions[j].to[tree[apportions[j].node].left_sibling] #
                apportions[j].from[tree[apportions[j].node].left_sibling]

\* An iteration that found the ancestor is no sibling of node and returned.
C25_WitnessUnreached ==
    /\ last = "position"
    /\ \E j \in DOMAIN apportions :
          ~ReachedFrom(apportions[j].node, apportions[j].ancestor_neighbor)

(***************************************************************************)
(* C26.  After a successful position_tree every internal node, including   *)
(* one that has a left sibling and one whose prelim and modifier were      *)
(* shifted by _apportion of a sibling to its right, has its final x at the *)
(* midpoint of the final x of its first and of its last child.             *)
(***************************************************************************)
C26_EveryParentCentred ==
    Positioned => \A n \in Nodes : ~tree[n].is_leaf => CentredOverChildren(n)

\* n was shifted by an iteration of _apportion of a sibling to its right.
ShiftedFromRight(n) ==
    \E j \in DOMAIN apportions :
        /\ apportions[j].node # n
        /\ apportions[j].to[n] # apportions[j].from[n]

\* An internal node with a left sibling and children of its own was shifted
\* by its right sibling's _apportion, and lies away from the origin.
C26_Witness ==
    /\ Positioned
    /\ \E n \in Nodes :
          /\ ~tree[n].is_leaf
          /\ tree[n].left_sibling # None
          /\ ShiftedFromRight(n)
          /\ tree[n].modifier # Zero
          /\ X(tree[n].first_child) # X(LastChild(n))

(***************************************************************************)
(* C27.  On a new WalkerTree, if populate_tree raises InvalidTree then no  *)
(* root id is recorded, and every position_tree after it (with no other    *)
(* successful populate_tree) raises InvalidTree without running either     *)
(* walk and without writing the point of any node, although the rejected   *)
(* nodes remain in the store.                                              *)
(***************************************************************************)
\* populate_tree has stored nodes and recorded no root.
Rejected == Nodes # {} /\ root_node_id = None

C27_RejectedTreeNeverPositioned ==
    /\ (last = "populate" /\ exc = "InvalidTree") => Rejected
    /\ (last = "position" /\ Rejected) =>
          /\ exc = "InvalidTree"
          /\ first_walk = "none"
          /\ apportions = <<>>
          /\ \A n \in Nodes : writes[n] = 0 /\ tree[n].point = Point(Zero, Zero)
          /\ DOMAIN tree = DOMAIN before

\* The second position_tree after a populate_tree that raised InvalidTree.
C27_Witness ==
    /\ last = "position" /\ runs = 2
    /\ exc_before = "InvalidTree" /\ exc = "InvalidTree"
    /\ Rejected
    /\ ValidateTree(tree) = {"InvalidTree"}

(***************************************************************************)
(* C28.  After any sequence of successful add_leaf and prune operations    *)
(* the rebuilt walker tree passes validation and list_nodes returns each   *)
(* node of the current tree exactly once (the root and every remaining     *)
(* descendant, no pruned node, no duplicate), a non-root node flagged      *)
(* _is_leaf exactly when it has no children.                               *)
(***************************************************************************)
\* add_leaf or prune has returned normally, called on a Bonsai that held a
\* tree and whose call before had returned normally too.
Edit == last \in {"add_leaf", "prune"} /\ exc = "none" /\ exc_before = "none"
SuccessfulEdit == Edit /\ IsTree(children_before)

\* What the claim says of the Bonsai as the call leaves it.
TreeListedOnce ==
    /\ ValidateTree(tree) = {"none"}
    /\ IsTree(parent_id_to_children)
    /\ list_nodes(parent_id_to_children, tree) =
          Reach(parent_id_to_children, RootIds(parent_id_to_children))
    /\ \A id \in NodeIds(parent_id_to_children) :
          Cardinality({r \in ListedNodes(parent_id_to_children, tree) : r.id = id}) = 1
    /\ \A r \in ListedNodes(parent_id_to_children, tree) :
          r.id \notin RootIds(parent_id_to_children) =>
              (r.is_leaf <=> ListedUnder(parent_id_to_children, r.id) = {})
    /\ (last = "prune" /\ Pruning \in NodeIds(children_before)) =>
          Pruning \notin NodeIds(parent_id_to_children)

\* C28: after a successful add_leaf or prune the WalkerTree validates and
\* list_nodes returns every node of the tree once, with the right leaf flag.
C28_EveryNodeListedOnce == SuccessfulEdit => TreeListedOnce

\* The calls that name a new id and a node of the tree for its parent, or a
\* node of the tree other than the root and its parent.
SoundEdit ==
    /\ SuccessfulEdit
    /\ last = "add_leaf" =>
          /\ NewParent \in NodeIds(children_before)
          /\ NewLeaf \notin NodeIds(children_before)
    /\ last = "prune" =>
          /\ Pruning \in NodeIds(children_before) \ RootIds(children_before)
          /\ PrunedBelow = ParentIn(children_before, Pruning)

\* Of those calls the statement holds.
C28_ListedOnceAfterSoundEdit == SoundEdit => TreeListedOnce

=============================================================================
